---------------------------- MODULE Spec2Model ----------------------------
(***************************************************************************)
(* A model of extract_cc_data.py: StatementParser reads credit-card        *)
(* statement PDFs, classifies the lines of every page, extracts            *)
(* transaction records, groups them by the year of the file name and       *)
(* writes one CSV per year.                                                *)
(*                                                                         *)
(* Text is modelled at character level: a token is a sequence of           *)
(* one-character strings, a line is the sequence of tokens line.split()    *)
(* yields (a blank line is the empty sequence).  An amount is held in      *)
(* cents (the float times 100), exact for the two-digit amounts the        *)
(* classifier lets through.                                                *)
(***************************************************************************)
EXTENDS Integers, Sequences, FiniteSets, TLC

\* ------------------------------------------------------------------ bounds
\* Lines of the documents of the directory, all together.
MaxTotalLines == 3
\* Words of a description.
MaxDesc == 1

\* ------------------------------------------------------------- characters
Uppers == <<"A","B","C","D","E","F","G","H","I","J","K","L","M",
            "N","O","P","Q","R","S","T","U","V","W","X","Y","Z">>
Lowers == <<"a","b","c","d","e","f","g","h","i","j","k","l","m",
            "n","o","p","q","r","s","t","u","v","w","x","y","z">>
Digits == <<"0","1","2","3","4","5","6","7","8","9">>

Range(s) == {s[i] : i \in DOMAIN s}
UpperSet == Range(Uppers)
LowerSet == Range(Lowers)
DigitSet == Range(Digits)
IsUpper(c) == c \in UpperSet
IsLower(c) == c \in LowerSet
IsDigit(c) == c \in DigitSet
IsSpace(c) == c = " "
AllDigits(s) == \A i \in DOMAIN s : IsDigit(s[i])
DigitVal(c) == (CHOOSE i \in DOMAIN Digits : Digits[i] = c) - 1
ToLower(c) == IF IsUpper(c) THEN Lowers[CHOOSE i \in DOMAIN Uppers : Uppers[i] = c] ELSE c
LowerCase(s) == [i \in DOMAIN s |-> ToLower(s[i])]
Drop(s, k) == SubSeq(s, k + 1, Len(s))

RECURSIVE NatVal(_)
NatVal(s) == IF s = <<>> THEN 0 ELSE NatVal(SubSeq(s, 1, Len(s) - 1)) * 10 + DigitVal(s[Len(s)])

\* ' '.join(parts)
RECURSIVE Join(_)
Join(parts) == IF parts = <<>> THEN <<>>
               ELSE IF Len(parts) = 1 THEN parts[1]
               ELSE parts[1] \o <<" ">> \o Join(Tail(parts))

\* ---------------------------------------------------------------- regexes
\* is_date: ^[A-Z][a-z]{2}\s+\d{1,2}$
is_date(text) ==
    /\ Len(text) >= 5
    /\ IsUpper(text[1]) /\ IsLower(text[2]) /\ IsLower(text[3])
    /\ \E k \in 1..(Len(text) - 4) :
          /\ \A i \in 4..(3 + k) : IsSpace(text[i])
          /\ Len(text) - (3 + k) \in {1, 2}
          /\ AllDigits(Drop(text, 3 + k))

\* (,\d{3})*
RECURSIVE CommaGroups(_)
CommaGroups(s) ==
    \/ s = <<>>
    \/ /\ Len(s) >= 4
       /\ s[1] = ","
       /\ AllDigits(SubSeq(s, 2, 4))
       /\ CommaGroups(Drop(s, 4))

\* is_amount: ^\$\d{1,3}(,\d{3})*\.\d{2}$
is_amount(text) ==
    /\ Len(text) >= 5
    /\ text[1] = "$"
    /\ text[Len(text) - 2] = "."
    /\ IsDigit(text[Len(text) - 1]) /\ IsDigit(text[Len(text)])
    /\ LET body == SubSeq(text, 2, Len(text) - 3)
       IN \E k \in 1..3 :
             /\ k <= Len(body)
             /\ AllDigits(SubSeq(body, 1, k))
             /\ CommaGroups(Drop(body, k))

\* str.replace(ch, '')
RECURSIVE Strip(_, _)
Strip(s, ch) == IF s = <<>> THEN <<>>
                ELSE IF s[1] = ch THEN Strip(Tail(s), ch)
                ELSE <<s[1]>> \o Strip(Tail(s), ch)

\* float() on the digits.digits form, in cents; any other text is a ValueError
\* here (the forms float() also takes, "1e5" or "inf", hold no "$" pattern).
ParseFloat(s) ==
    IF \E p \in DOMAIN s :
          /\ s[p] = "."
          /\ p > 1 /\ Len(s) - p = 2
          /\ AllDigits(SubSeq(s, 1, p - 1)) /\ AllDigits(Drop(s, p))
    THEN LET p == CHOOSE q \in DOMAIN s : s[q] = "."
         IN [ok |-> TRUE, cents |-> NatVal(SubSeq(s, 1, p - 1)) * 100 + NatVal(Drop(s, p))]
    ELSE [ok |-> FALSE, cents |-> 0]

parse_amount(amount_str) == ParseFloat(Strip(Strip(amount_str, "$"), ","))

\* ------------------------------------------------------------------ dates
MonthAbbr == << <<"j","a","n">>, <<"f","e","b">>, <<"m","a","r">>, <<"a","p","r">>,
                <<"m","a","y">>, <<"j","u","n">>, <<"j","u","l">>, <<"a","u","g">>,
                <<"s","e","p">>, <<"o","c","t">>, <<"n","o","v">>, <<"d","e","c">> >>

IsLeap(y) == (y % 4 = 0 /\ y % 100 # 0) \/ y % 400 = 0
DaysInMonth(y, m) == IF m = 2 THEN (IF IsLeap(y) THEN 29 ELSE 28)
                     ELSE IF m \in {4, 6, 9, 11} THEN 30 ELSE 31

\* %b: an abbreviated month name of the C locale, letter case ignored; 0: none
MonthOf(tok) == IF \E m \in DOMAIN MonthAbbr : MonthAbbr[m] = LowerCase(tok)
                THEN CHOOSE m \in DOMAIN MonthAbbr : MonthAbbr[m] = LowerCase(tok)
                ELSE 0

\* %d: 3[0-1]|[1-2]\d|0[1-9]|[1-9] over the whole token; 0: no match
DayOf(tok) ==
    IF Len(tok) = 1 /\ IsDigit(tok[1]) /\ tok[1] # "0" THEN DigitVal(tok[1])
    ELSE IF /\ Len(tok) = 2 /\ IsDigit(tok[1]) /\ IsDigit(tok[2])
            /\ \/ tok[1] = "3" /\ tok[2] \in {"0", "1"}
               \/ tok[1] \in {"1", "2"}
               \/ tok[1] = "0" /\ tok[2] # "0"
         THEN NatVal(tok)
    ELSE 0

Pad2(n) == <<Digits[(n \div 10) + 1], Digits[(n % 10) + 1]>>
Pad4(n) == Pad2(n \div 100) \o Pad2(n % 100)

\* strftime('%Y-%m-%d')
strftime(y, m, d) == Pad4(y) \o <<"-">> \o Pad2(m) \o <<"-">> \o Pad2(d)

\* A date parser that takes any day of two digits.
ParseDate_NoRange(monTok, dayTok, year) ==
    LET m == MonthOf(monTok)
        d == DayOf(dayTok)
    IN IF m # 0 /\ d # 0 /\ year >= 1
       THEN [ok |-> TRUE, iso |-> strftime(year, m, d)]
       ELSE [ok |-> FALSE, iso |-> <<>>]

\* datetime.strptime(mon + ' ' + day + ' ' + year, '%b %d %Y').strftime('%Y-%m-%d');
\* the year is the four digits of the file name, datetime takes years from 1.
ParseDate(monTok, dayTok, year) ==
    LET m == MonthOf(monTok)
        d == DayOf(dayTok)
    IN IF m # 0 /\ d # 0 /\ year >= 1 /\ d <= DaysInMonth(year, m)
       THEN [ok |-> TRUE, iso |-> strftime(year, m, d)]
       ELSE [ok |-> FALSE, iso |-> <<>>]

\* datetime.strptime(s, '%Y-%m-%d') as the sort key <<y, m, d>>
DateKey(iso) == <<NatVal(SubSeq(iso, 1, 4)), NatVal(SubSeq(iso, 6, 7)), NatVal(SubSeq(iso, 9, 10))>>
KeyLess(a, b) == \/ a[1] < b[1]
                 \/ a[1] = b[1] /\ a[2] < b[2]
                 \/ a[1] = b[1] /\ a[2] = b[2] /\ a[3] < b[3]


\* -------------------------------------------------------------- the text
\* tokens
tJan == <<"J","a","n">>
tjan == <<"j","a","n">>
tFeb == <<"F","e","b">>
tApr == <<"A","p","r">>
tFoo == <<"F","o","o">>
tJune == <<"J","u","n","e">>
t0 == <<"0">>
t1 == <<"1">>
t5 == <<"5">>
t06 == <<"0","6">>
t29 == <<"2","9">>
t30 == <<"3","0">>
t31 == <<"3","1">>
t32 == <<"3","2">>
t123 == <<"1","2","3">>
tCOFFEE == <<"C","O","F","F","E","E">>
tSHOP == <<"S","H","O","P">>
tTEA == <<"T","E","A">>
tAmt450 == <<"$","4",".","5","0">>
tAmt1234 == <<"$","1",",","2","3","4",".","5","6">>
tAmt0 == <<"$","0",".","0","0">>
tAmtNoDollar == <<"4",".","5","0">>
tAmtNoComma == <<"$","1","2","3","4",".","5","6">>
tAmtOneDigit == <<"$","4",".","5">>

\* The lines the pages of a statement hold, as line.split() tokenizes them.
Corpus == {
    <<tJan, t5, tAmt450>>,                           \* fewer than 4 tokens
    <<tJan, t5, tJan, t06, tCOFFEE, tSHOP, tAmt450>>, \* "Jan 5 Jan 06 COFFEE SHOP $4.50"
    <<tJan, t5, tjan, t29, tAmt1234>>,               \* the same date, no description
    <<tJan, t1, tJan, t1, tTEA, tAmt0>>,             \* an earlier date
    <<tJan, t5, tJan, tAmt450>>,                     \* exactly 4 tokens
    <<tFeb, t29, tFeb, t29, tTEA, tAmt450>>          \* a date of leap years only
}

\* Lines of every shape: none, three or four tokens, or two date pairs, a
\* description of up to MaxDesc words and a last token.
MonthTokens == {tJan, tjan, tFeb, tApr, tFoo, tJune}
DayTokens == {t0, t5, t06, t29, t30, t31, t32, t123}
LastTokens == {tAmt450, tAmt1234, tAmtNoDollar, tAmtNoComma, tAmtOneDigit, tTEA}
Words(n) == [1..n -> {tTEA}]
WideLines ==
    {<<>>}
    \cup {<<a, b, z>> : a \in MonthTokens, b \in DayTokens, z \in LastTokens}
    \cup {<<a, b, c, z>> : a \in {tJan, tFeb}, b \in {t5, t30}, c \in MonthTokens, z \in LastTokens}
    \cup UNION {{<<l[1], l[2], l[3], l[4]>> \o w \o <<l[5]>> : w \in Words(n),
                   l \in MonthTokens \X DayTokens \X MonthTokens \X DayTokens \X {tAmt450, tAmtNoDollar}}
                : n \in 0..MaxDesc}

\* ------------------------------------------------------------- the files
\* A file of the directory: "<year> <Mon> CreditCardStatement.pdf" when stmt,
\* a PDF of another name otherwise.
Names == { [year |-> 2023, mon |-> 1, stmt |-> TRUE],
           [year |-> 2023, mon |-> 2, stmt |-> TRUE],
           [year |-> 2024, mon |-> 1, stmt |-> TRUE],
           [year |-> 2024, mon |-> 3, stmt |-> FALSE] }

\* The rank of each month's abbreviation in string order:
\* Apr Aug Dec Feb Jan Jul Jun Mar May Nov Oct Sep.
AlphaRank == <<5, 4, 8, 1, 9, 7, 6, 2, 12, 11, 10, 3>>
NameLeq(f, g) == \/ f.year < g.year
                 \/ f.year = g.year /\ AlphaRank[f.mon] <= AlphaRank[g.mon]

\* sorted(pdf_files)
RECURSIVE SortedNames(_)
SortedNames(S) == IF S = {} THEN <<>>
                  ELSE LET f == CHOOSE x \in S : \A y \in S : NameLeq(x, y)
                       IN <<f>> \o SortedNames(S \ {f})

get_statement_files(d) == {f \in d : f.stmt}
extract_year_from_filename(f) == f.year

\* ------------------------------------------------------- line processing
\* A classifier that holds tokens[2..3] to the date pattern too.
Classify_BothDates(parts) ==
    /\ Len(parts) >= 4
    /\ is_date(parts[1] \o <<" ">> \o parts[2])
    /\ is_date(parts[3] \o <<" ">> \o parts[4])
    /\ is_amount(parts[Len(parts)])

\* line 73
Classify(parts) ==
    /\ Len(parts) >= 4
    /\ is_date(parts[1] \o <<" ">> \o parts[2])
    /\ is_amount(parts[Len(parts)])

\* lines 75-90: the record, or the ValueError of strptime or float
Extract(parts, year) ==
    LET trans_date == ParseDate(parts[1], parts[2], year)
        post_date == ParseDate(parts[3], parts[4], year)
        amount == parse_amount(parts[Len(parts)])
        description == Join(SubSeq(parts, 5, Len(parts) - 1))
    IN IF trans_date.ok /\ post_date.ok /\ amount.ok
       THEN [ok |-> TRUE,
             rec |-> [td |-> trans_date.iso, pd |-> post_date.iso,
                      desc |-> description, amt |-> amount.cents]]
       ELSE [ok |-> FALSE, rec |-> <<>>]

\* A handler of the line's ValueError that prints nothing.
LineResult_Silent(parts, year) ==
    IF parts = <<>>
    THEN [outcome |-> "blank", new |-> <<>>, printed |-> <<>>]
    ELSE IF Classify(parts)
         THEN LET e == Extract(parts, year)
              IN IF e.ok
                 THEN [outcome |-> "record", new |-> <<e.rec>>, printed |-> <<>>]
                 ELSE [outcome |-> "warned", new |-> <<>>, printed |-> <<>>]
         ELSE [outcome |-> "unclassified", new |-> <<>>, printed |-> <<>>]

\* lines 68-95 for one line: the branch taken, what it appends to the list
\* and what it prints
LineResult(parts, year) ==
    IF parts = <<>>
    THEN [outcome |-> "blank", new |-> <<>>, printed |-> <<>>]
    ELSE IF Classify(parts)
         THEN LET e == Extract(parts, year)
              IN IF e.ok
                 THEN [outcome |-> "record", new |-> <<e.rec>>, printed |-> <<>>]
                 ELSE [outcome |-> "warned", new |-> <<>>,
                       printed |-> <<"Warning: Couldn't parse line", "Error:">>]
         ELSE [outcome |-> "unclassified", new |-> <<>>, printed |-> <<>>]

\* No handler around the line: its ValueError reaches line 97.
LineControl_Raise(branch) == "raise"

\* lines 92-95: the handler of a line's ValueError ends with continue
LineControl(branch) == "continue"

\* lines 97-99: what parse_statement returns when the document raised
None == [ok |-> FALSE, recs |-> <<>>]
\* A handler of the document's error that returns the records it has.
OnDocumentError_Partial(trans) == [ok |-> TRUE, recs |-> trans]
OnDocumentError(trans) == None

\* A PDF opened without a with block stays open.
ExitWith_Leak(h, i) == h

\* line 63: leaving the with block, by return or by exception, closes the PDF
ExitWith(h, i) == h \ {i}


\* --------------------------------------------------------------- the ledger
\* transactions_by_year: a defaultdict(list), its keys in insertion order, as
\* the sequence of its items [year, recs].
HasYear(ledger, year) == \E k \in DOMAIN ledger : ledger[k].year = year
LedgerOf(ledger, year) == IF HasYear(ledger, year)
                          THEN ledger[CHOOSE k \in DOMAIN ledger : ledger[k].year = year].recs
                          ELSE <<>>

\* An assignment in place of extend.
Extend_Replace(ledger, year, recs) ==
    IF HasYear(ledger, year)
    THEN [k \in DOMAIN ledger |->
             IF ledger[k].year = year THEN [year |-> year, recs |-> recs] ELSE ledger[k]]
    ELSE Append(ledger, [year |-> year, recs |-> recs])

\* line 123: self.transactions_by_year[year].extend(transactions)
Extend(ledger, year, recs) ==
    IF HasYear(ledger, year)
    THEN [k \in DOMAIN ledger |->
             IF ledger[k].year = year
             THEN [year |-> year, recs |-> ledger[k].recs \o recs]
             ELSE ledger[k]]
    ELSE Append(ledger, [year |-> year, recs |-> recs])

\* if transactions is not None
ShouldAdd_NotNone(res) == res.ok

\* line 121: if transactions (neither None nor an empty list)
ShouldAdd(res) == res.ok /\ res.recs # <<>>

\* --------------------------------------------------------------- the export
\* lines 145-146: sorted() by the parsed transaction date, stable
RECURSIVE Insert(_, _)
Insert(sorted, r) ==
    IF sorted = <<>> THEN <<r>>
    ELSE IF KeyLess(DateKey(r.td), DateKey(sorted[Len(sorted)].td))
         THEN Append(Insert(SubSeq(sorted, 1, Len(sorted) - 1), r), sorted[Len(sorted)])
         ELSE Append(sorted, r)

\* A sort that puts a record before the records of its date.
RECURSIVE InsertBeforeEqual(_, _)
InsertBeforeEqual(sorted, r) ==
    IF sorted = <<>> THEN <<r>>
    ELSE IF ~KeyLess(DateKey(sorted[Len(sorted)].td), DateKey(r.td))
         THEN Append(InsertBeforeEqual(SubSeq(sorted, 1, Len(sorted) - 1), r), sorted[Len(sorted)])
         ELSE Append(sorted, r)

RECURSIVE Sorted_Unstable(_)
Sorted_Unstable(recs) ==
    IF recs = <<>> THEN <<>>
    ELSE InsertBeforeEqual(Sorted_Unstable(SubSeq(recs, 1, Len(recs) - 1)), recs[Len(recs)])

RECURSIVE Sorted(_)
Sorted(recs) == IF recs = <<>> THEN <<>>
                ELSE Insert(Sorted(SubSeq(recs, 1, Len(recs) - 1)), recs[Len(recs)])

\* A handler of the export's error that goes on with the next year.
OnExportError_Continue(i) == [pc |-> "save", yi |-> i + 1]

\* lines 152-154: a failed year ends the export (return False)
OnExportError(i) == [pc |-> "done", yi |-> i]

\* ------------------------------------------------------------------- state
VARIABLES
    dir,                   \* the PDF files of the directory
    pc,                    \* where the run is
    pdf_files,             \* sorted(pdf_files), line 117
    idx,                   \* the document of the loop of line 117
    handles,               \* the documents whose PDF is open
    page,                  \* pages of the document read so far (loop of line 64)
    line,                  \* the line of the loop of line 67, tokenized
    budget,                \* lines the rest of the directory may still hold
    transactions,          \* parse_statement's local list
    result,                \* what parse_statement returned
    transactions_by_year,  \* the ledger
    yi,                    \* the item of the loop of line 136
    written,               \* the output files, in the order they were opened
    printed,               \* what the last step printed
    outcome,               \* history: the branch the line took, when the last step read a line
    expected,              \* history: the records of the document's lines that parse
    warnedAfter,           \* history: the records held when a line last failed to parse, -1 if none did
    failed,                \* history: opening or extracting the document raised
    results,               \* history: what each document returned
    exportFailed           \* history: the item whose export failed, 0 if none

vars == <<dir, pc, pdf_files, idx, handles, page, line, budget,
          transactions, result, transactions_by_year, yi, written, printed,
          outcome, expected, warnedAfter, failed, results, exportFailed>>

docVars == <<handles, page, line, budget, transactions, result,
             outcome, expected, warnedAfter, failed>>
saveVars == <<yi, written, exportFailed>>

year == extract_year_from_filename(pdf_files[idx])

\* The record of a line that passes classification and field parsing.
Parsed(parts, y) == LET e == Extract(parts, y)
                    IN IF parts # <<>> /\ Classify(parts) /\ e.ok THEN <<e.rec>> ELSE <<>>

\* The directory holds every file, or only the PDF of another name.
Init ==
    /\ dir \in {Names, {f \in Names : ~f.stmt}}
    /\ pc = "start"
    /\ pdf_files = <<>>
    /\ idx = 1
    /\ handles = {}
    /\ page = 0 /\ line = <<>>
    /\ budget = MaxTotalLines
    /\ transactions = <<>>
    /\ result = None
    /\ transactions_by_year = <<>>
    /\ yi = 1
    /\ written = <<>>
    /\ printed = <<>>
    /\ outcome = "none"
    /\ expected = <<>>
    /\ warnedAfter = -1
    /\ failed = FALSE
    /\ results = <<>>
    /\ exportFailed = 0

\* lines 105-115, and line 184 when nothing matches
GetStatementFiles ==
    /\ pc = "start"
    /\ pdf_files' = SortedNames(get_statement_files(dir))
    /\ IF pdf_files' = <<>>
       THEN /\ pc' = "done"
            /\ printed' = <<"No matching PDF files found", "No transactions were processed.">>
       ELSE /\ pc' = "next"
            /\ printed' = <<"Found PDF files to process", "Starting processing...">>
    /\ UNCHANGED <<dir, idx, transactions_by_year, results>>
    /\ UNCHANGED docVars /\ UNCHANGED saveVars

\* lines 118-119, 59-63: the next document is opened
OpenDocument ==
    /\ pc = "next" /\ idx <= Len(pdf_files)
    /\ handles' = handles \cup {idx}
    /\ page' = 0
    /\ transactions' = <<>>
    /\ outcome' = "none"
    /\ pc' = "page"
    /\ printed' = <<"Processing">>
    /\ UNCHANGED <<dir, pdf_files, idx, line, budget, result, expected,
                   warnedAfter, failed, transactions_by_year, results>>
    /\ UNCHANGED saveVars

\* lines 118-119, 59-63, 97-99: pdfplumber.open raises
OpenFails ==
    /\ pc = "next" /\ idx <= Len(pdf_files)
    /\ transactions' = <<>>
    /\ failed' = TRUE
    /\ result' = OnDocumentError(transactions')
    /\ outcome' = "none"
    /\ pc' = "ret"
    /\ printed' = <<"Processing", "Error processing PDF">>
    /\ UNCHANGED <<dir, pdf_files, idx, handles, page, line, budget,
                   expected, warnedAfter, transactions_by_year, results>>
    /\ UNCHANGED saveVars

\* lines 64-65: the document has another page, its text is extracted and split
\* (split('\n') yields at least one line)
ExtractPage ==
    /\ pc = "page" /\ budget >= 1
    /\ page' = page + 1
    /\ budget' = budget - 1
    /\ outcome' = "none"
    /\ pc' = "line"
    /\ printed' = <<>>
    /\ UNCHANGED <<dir, pdf_files, idx, handles, line, transactions, result,
                   expected, warnedAfter, failed, transactions_by_year, results>>
    /\ UNCHANGED saveVars

\* lines 64-65, 97-99: the document has another page and page.extract_text()
\* raises, or returns None
ExtractFails ==
    /\ pc = "page"
    /\ handles' = ExitWith(handles, idx)
    /\ failed' = TRUE
    /\ result' = OnDocumentError(transactions)
    /\ outcome' = "none"
    /\ pc' = "ret"
    /\ printed' = <<"Error processing PDF">>
    /\ UNCHANGED <<dir, pdf_files, idx, page, line, budget, transactions,
                   expected, warnedAfter, transactions_by_year, results>>
    /\ UNCHANGED saveVars

\* lines 67-95: the next line of the page, which is the page's last or not
ProcessLineOf(lines) ==
    /\ pc = "line"
    /\ \E parts \in lines, last \in BOOLEAN :
          LET r == LineResult(parts, year)
          IN /\ ~last => budget >= 1
             /\ line' = parts
             /\ budget' = IF last THEN budget ELSE budget - 1
             /\ outcome' = r.outcome
             /\ printed' = r.printed
             /\ expected' = expected \o Parsed(parts, year)
             /\ warnedAfter' = IF r.outcome = "warned" THEN Len(transactions) ELSE warnedAfter
             /\ transactions' = transactions \o r.new
             /\ IF r.outcome = "warned" /\ LineControl(r.outcome) # "continue"
                THEN \* the ValueError leaves both loops, to line 97
                     /\ handles' = ExitWith(handles, idx)
                     /\ result' = OnDocumentError(transactions)
                     /\ pc' = "ret"
                ELSE /\ pc' = IF last THEN "page" ELSE "line"
                     /\ UNCHANGED <<handles, result>>
    /\ UNCHANGED <<dir, pdf_files, idx, page, failed, transactions_by_year, results>>
    /\ UNCHANGED saveVars

ProcessLine == ProcessLineOf(Corpus)

\* lines 64, 101: no page is left, the with block ends, the list is returned
ReturnTransactions ==
    /\ pc = "page"
    /\ handles' = ExitWith(handles, idx)
    /\ result' = [ok |-> TRUE, recs |-> transactions]
    /\ outcome' = "none"
    /\ pc' = "ret"
    /\ printed' = <<>>
    /\ UNCHANGED <<dir, pdf_files, idx, page, line, budget, transactions,
                   expected, warnedAfter, failed, transactions_by_year, results>>
    /\ UNCHANGED saveVars

\* lines 121-126: the returned list joins the ledger of the document's year;
\* parse_statement's locals are gone
AddToLedger ==
    /\ pc = "ret"
    /\ IF ShouldAdd(result)
       THEN /\ transactions_by_year' = Extend(transactions_by_year, year, result.recs)
            /\ printed' = <<"Added transactions">>
       ELSE /\ UNCHANGED transactions_by_year
            /\ printed' = <<"No transactions found">>
    /\ results' = Append(results, [year |-> year, ok |-> result.ok, recs |-> result.recs])
    /\ idx' = idx + 1
    /\ pc' = "next"
    /\ transactions' = <<>> /\ result' = None /\ line' = <<>>
    /\ page' = 0
    /\ outcome' = "none" /\ expected' = <<>> /\ warnedAfter' = -1 /\ failed' = FALSE
    /\ UNCHANGED <<dir, pdf_files, handles, budget>>
    /\ UNCHANGED saveVars

\* lines 128, 172-173, 132-134, 184: after the last document
EndProcessing ==
    /\ pc = "next" /\ idx > Len(pdf_files)
    /\ IF transactions_by_year # <<>>
       THEN pc' = "save" /\ printed' = <<>>
       ELSE pc' = "done" /\ printed' = <<"No transactions were processed.">>
    /\ UNCHANGED <<dir, pdf_files, idx, transactions_by_year, results>>
    /\ UNCHANGED docVars /\ UNCHANGED saveVars

\* lines 136-150: one year's file is written
SaveYear ==
    /\ pc = "save" /\ yi <= Len(transactions_by_year)
    /\ written' = Append(written, [year |-> transactions_by_year[yi].year,
                                   rows |-> Sorted(transactions_by_year[yi].recs),
                                   complete |-> TRUE])
    /\ yi' = yi + 1
    /\ printed' = <<"Saved transactions">>
    /\ UNCHANGED <<dir, pc, pdf_files, idx, transactions_by_year, results, exportFailed>>
    /\ UNCHANGED docVars

\* lines 139-154: open() raises and there is no file, or a write raises and
\* the file holds a part of the rows, which is not modelled
SaveYearFails ==
    /\ pc = "save" /\ yi <= Len(transactions_by_year)
    /\ \/ UNCHANGED written
       \/ written' = Append(written, [year |-> transactions_by_year[yi].year,
                                      rows |-> <<>>, complete |-> FALSE])
    /\ exportFailed' = yi
    /\ pc' = OnExportError(yi).pc
    /\ yi' = OnExportError(yi).yi
    /\ printed' = <<"Error saving CSV", "Failed to save some transactions.">>
    /\ UNCHANGED <<dir, pdf_files, idx, transactions_by_year, results>>
    /\ UNCHANGED docVars

\* lines 156, 174-180: every year is written
EndSave ==
    /\ pc = "save" /\ yi > Len(transactions_by_year)
    /\ pc' = "done"
    /\ printed' = <<"Processing complete!", "Summary">>
    /\ UNCHANGED <<dir, pdf_files, idx, transactions_by_year, results>>
    /\ UNCHANGED docVars /\ UNCHANGED saveVars

Next ==
    \/ GetStatementFiles
    \/ OpenDocument
    \/ OpenFails
    \/ ExtractPage
    \/ ExtractFails
    \/ ProcessLine
    \/ ReturnTransactions
    \/ AddToLedger
    \/ EndProcessing
    \/ SaveYear
    \/ SaveYearFails
    \/ EndSave

Spec == Init /\ [][Next]_vars

\* ------------------------------------------------- one line, of any shape
\* A statement is open and the one line of its first page is to be read.
InitLine ==
    /\ \E f \in {g \in Names : g.stmt} : dir = {f} /\ pdf_files = <<f>>
    /\ pc = "line"
    /\ idx = 1
    /\ handles = {1}
    /\ page = 1 /\ line = <<>>
    /\ budget = 0
    /\ transactions = <<>>
    /\ result = None
    /\ transactions_by_year = <<>>
    /\ yi = 1
    /\ written = <<>>
    /\ printed = <<>>
    /\ outcome = "none"
    /\ expected = <<>>
    /\ warnedAfter = -1
    /\ failed = FALSE
    /\ results = <<>>
    /\ exportFailed = 0

ProcessWideLine == ProcessLineOf(WideLines)

NextLine ==
    \/ ProcessWideLine
    \/ ReturnTransactions

SpecLine == InitLine /\ [][NextLine]_vars


\* ------------------------------------------------------------------ claims
Years == {f.year : f \in Names}
Items(seq) == {seq[k] : k \in DOMAIN seq}

\* C1: a line that passes classification and fails field parsing adds no
\* record, loses none and does not end the document: while the document is
\* read its list holds exactly the records of the lines that parsed so far, in
\* order, and unless the document could not be opened or extracted that list
\* is what parse_statement returns.
C1_MalformedLineSkipped ==
    /\ pc \in {"page", "line"} => transactions = expected /\ ~failed
    /\ (pc = "ret" /\ ~failed) => result = [ok |-> TRUE, recs |-> expected]

\* A document returned two records, one read before and one after a line that
\* failed to parse, the later one on a later page.
C1_Witness ==
    /\ pc = "ret" /\ ~failed
    /\ warnedAfter = 1
    /\ Len(result.recs) = 2
    /\ page >= 2

\* C2: a document that cannot be opened or extracted leaves the ledger as it
\* was, whatever records its earlier lines gave, the loop goes on to the next
\* document, and the run ends only when every document was taken.
C2_FailedDocumentSkipped ==
    /\ [][(pc = "ret" /\ failed) =>
            /\ transactions_by_year' = transactions_by_year
            /\ pc' = "next" /\ idx' = idx + 1
            /\ results'[idx].recs = <<>>]_vars
    /\ [](pc \in {"save", "done"} => Len(results) = Len(pdf_files))

\* A document failed after a record was extracted from it; the ledger holds
\* records of an earlier document and a later document waits.
C2_Witness ==
    /\ pc = "ret" /\ failed
    /\ transactions # <<>>
    /\ transactions_by_year # <<>>
    /\ idx < Len(pdf_files)

\* C3 as claimed: every line skipped, by the classifier or by field parsing,
\* prints a log line.
C3_EverySkippedLineLogged ==
    outcome \in {"unclassified", "warned"} => printed # <<>>

\* C3 amended: a line that passes classification and fails field parsing
\* prints the warning and the document goes on; a line the classifier rejects
\* prints nothing.
C3_ParseFailureLogged ==
    /\ outcome = "warned" =>
          /\ printed # <<>>
          /\ printed[1] = "Warning: Couldn't parse line"
          /\ pc \in {"page", "line"}
    /\ outcome = "unclassified" => printed = <<>>

\* A classified line failed field parsing.
C3_Witness ==
    /\ outcome = "warned"
    /\ Classify(line)
    /\ ~Extract(line, year).ok

\* C4: the ledger of each year is the concatenation, in processing order, of
\* the lists the documents of that year returned, with nothing merged or
\* dropped, and the documents are taken in the order of their names.
RECURSIVE Concat(_, _)
Concat(rs, y) ==
    IF rs = <<>> THEN <<>>
    ELSE (IF rs[1].year = y /\ rs[1].ok THEN rs[1].recs ELSE <<>>) \o Concat(Tail(rs), y)

C4_LedgerIsConcatenation ==
    /\ \A y \in Years : LedgerOf(transactions_by_year, y) = Concat(results, y)
    /\ \A j, k \in DOMAIN transactions_by_year :
          transactions_by_year[j].year = transactions_by_year[k].year => j = k
    /\ \A k \in DOMAIN results : results[k].year = pdf_files[k].year
    /\ pc \in {"save", "done"} => Len(results) = Len(pdf_files)

\* Two documents of one year gave records each, the same record among them.
C4_Witness ==
    /\ pc = "save"
    /\ Len(results) >= 2
    /\ results[1].year = results[2].year
    /\ results[1].recs # <<>> /\ results[2].recs # <<>>
    /\ results[1].recs[1] = results[2].recs[1]
    /\ Len(LedgerOf(transactions_by_year, results[1].year))
          = Len(results[1].recs) + Len(results[2].recs)

\* C5: the rows of a year written in full are that year's records, each once,
\* by ascending transaction date, records of one date in the ledger's order:
\* the record at i stands after the records of an earlier date and the
\* records of its date that precede it.
DateOf(r) == DateKey(r.td)
RowOf(recs, i) ==
    Cardinality({j \in DOMAIN recs : KeyLess(DateOf(recs[j]), DateOf(recs[i]))})
    + Cardinality({j \in 1..i : DateOf(recs[j]) = DateOf(recs[i])})

C5_RowsStablySorted ==
    \A k \in DOMAIN written :
        written[k].complete =>
            LET recs == LedgerOf(transactions_by_year, written[k].year)
                rows == written[k].rows
            IN /\ Len(rows) = Len(recs)
               /\ \A i \in DOMAIN recs : rows[RowOf(recs, i)] = recs[i]
               /\ \A i \in 1..(Len(rows) - 1) : ~KeyLess(DateOf(rows[i + 1]), DateOf(rows[i]))

\* A year of three records, the earliest date last in the ledger and two
\* different records of one date, was written.
C5_Witness ==
    \E k \in DOMAIN written :
        LET recs == LedgerOf(transactions_by_year, written[k].year)
            rows == written[k].rows
        IN /\ written[k].complete
           /\ Len(recs) = 3
           /\ recs[1].td = recs[2].td /\ recs[1] # recs[2]
           /\ KeyLess(DateOf(recs[3]), DateOf(recs[1]))
           /\ rows = <<recs[3], recs[1], recs[2]>>

\* C6: when the export of a year fails the run is over: no file of a later
\* year exists, and the files of the years before it are whole, as written.
C6_ExportStopsAtFailure ==
    /\ \A k \in DOMAIN written :
          /\ k <= Len(transactions_by_year)
          /\ written[k].year = transactions_by_year[k].year
    /\ exportFailed # 0 =>
          /\ pc = "done"
          /\ Len(written) <= exportFailed
          /\ \A k \in DOMAIN written :
                IF k < exportFailed
                THEN /\ written[k].complete
                     /\ written[k].rows = Sorted(transactions_by_year[k].recs)
                ELSE ~written[k].complete

\* The export of the first of two years failed.
C6_Witness ==
    /\ exportFailed = 1
    /\ Len(transactions_by_year) = 2
    /\ pc = "done"

\* C7: an output file is opened only in a run whose ledger holds a record.
RECURSIVE Count(_)
Count(ledger) == IF ledger = <<>> THEN 0 ELSE Len(ledger[1].recs) + Count(Tail(ledger))

C7_NoOutputWithoutRecords ==
    (pc = "save" \/ written # <<>> \/ exportFailed # 0) => Count(transactions_by_year) >= 1

\* Documents matched, their lines were read and none gave a record: the run
\* is over and nothing was written.
C7_Witness ==
    /\ pc = "done"
    /\ pdf_files # <<>>
    /\ budget = 0
    /\ \A k \in DOMAIN results : results[k].ok
    /\ Count(transactions_by_year) = 0
    /\ written = <<>>

\* C8: at most one PDF is open, that of the document being read, and none is
\* open between two documents, whether the document returned or raised.
C8_OneHandle ==
    /\ Cardinality(handles) <= 1
    /\ pc \in {"page", "line"} => handles = {idx}
    /\ pc \notin {"page", "line"} => handles = {}

\* A document raised after its PDF was opened and lines were read, and
\* another document waits.
C8_Witness ==
    /\ pc = "ret" /\ failed
    /\ transactions # <<>>
    /\ idx < Len(pdf_files)
    /\ handles = {}

\* C9: both dates of every record of the ledger are calendar dates of the
\* year the record is stored under.
IsoDateIn(iso, y) ==
    /\ Len(iso) = 10
    /\ iso[5] = "-" /\ iso[8] = "-"
    /\ \A i \in {1, 2, 3, 4, 6, 7, 9, 10} : IsDigit(iso[i])
    /\ NatVal(SubSeq(iso, 1, 4)) = y
    /\ NatVal(SubSeq(iso, 6, 7)) \in 1..12
    /\ NatVal(SubSeq(iso, 9, 10)) \in 1..DaysInMonth(y, NatVal(SubSeq(iso, 6, 7)))

C9_DatesInLedgerYear ==
    \A k \in DOMAIN transactions_by_year :
        /\ transactions_by_year[k].year \in Years
        /\ \A r \in Items(transactions_by_year[k].recs) :
              /\ IsoDateIn(r.td, transactions_by_year[k].year)
              /\ IsoDateIn(r.pd, transactions_by_year[k].year)

\* The ledger holds both years, and Feb 29 under the leap year.
C9_Witness ==
    /\ Len(transactions_by_year) = 2
    /\ \E r \in Items(LedgerOf(transactions_by_year, 2024)) :
          r.td = <<"2","0","2","4","-","0","2","-","2","9">>

\* C10: the classifier accepts a line exactly when it has 4 tokens or more,
\* tokens[0..1] match the date pattern and the last token the amount pattern;
\* an accepted line whose tokens[2..3] are no date of the year, as in every
\* line of 4 tokens, fails at date parsing and gives no record, and a record
\* carries the date of tokens[2..3].
C10_PostDateCheckedAtParsing ==
    outcome \notin {"none", "blank"} =>
        LET n == Len(line)
            accepted == /\ n >= 4
                        /\ is_date(line[1] \o <<" ">> \o line[2])
                        /\ is_amount(line[n])
        IN /\ accepted <=> outcome \in {"warned", "record"}
           /\ (accepted /\ ~ParseDate(line[3], line[4], year).ok) =>
                 outcome = "warned" /\ transactions = <<>>
           /\ (accepted /\ n = 4) => outcome = "warned"
           /\ outcome = "record" =>
                 /\ Len(transactions) = 1
                 /\ transactions[1].pd = ParseDate(line[3], line[4], year).iso
                 /\ IsoDateIn(transactions[1].pd, year)

\* A line of 4 tokens with a good transaction date was accepted and failed.
C10_Witness ==
    /\ outcome = "warned"
    /\ Len(line) = 4
    /\ ParseDate(line[1], line[2], year).ok

=============================================================================
